---- MODULE Spec2Model ----
(***************************************************************************)
(* Model of clustering.py: the construction of a discrete quadratic model  *)
(* (DQM) from pairwise distances of 2-D points, its one-shot submission to *)
(* the remote hybrid sampler, and the script's file and terminal output.   *)
(*                                                                         *)
(* Real numbers are fixed-point integers: the real r is the integer        *)
(* r * Unit, rounded down.  math.sqrt, math.cos and math.tanh are computed *)
(* on that representation (integer square root, truncated power series).   *)
(***************************************************************************)
EXTENDS Integers, Sequences, FiniteSets, TLC

\* Fixed-point resolution: 1.0 is represented by Unit.
Unit == 1000
\* Longest point list handed to cluster_points in the function-level runs.
MaxPoints == 3
\* dqm.add_variable(3): categories per variable.
NumCases == 3

VARIABLES
    pc,                 \* position of the (single) thread of control
    argv,               \* command-line arguments after the script name
    problem_inspector,  \* args.problem_inspector / the parameter of cluster_points
    scattered_points,   \* the list of (x, y) tuples
    filename,           \* cluster_points' filename parameter
    files,              \* image files written so far, in order
    stdout,             \* lines printed so far: [words, data] records
    coordinates,        \* cluster_points' list of Coordinate objects
    gmd_max,            \* get_max_distance's local max_distance (its return value)
    visited,            \* index pairs get_max_distance has measured, in order
    max_distance,       \* cluster_points' scaling divisor
    dqm,                \* the DiscreteQuadraticModel under construction
    set_calls,          \* the set_quadratic_case calls made, in order
    cur,                \* loop cursor: <<i, j>>, <<i>> or <<>> when exhausted
    k,                  \* position inside the body of the current pair
    remote_calls,       \* requests issued to the remote service, in order
    sampleset,          \* <<>> until sample_dqm returns, then <<best sample>>
    groupings           \* <<>> until get_groupings returns, then <<groupings>>

vars == <<pc, argv, problem_inspector, scattered_points, filename, files, stdout,
          coordinates, gmd_max, visited, max_distance, dqm, set_calls, cur, k,
          remote_calls, sampleset, groupings>>

----------------------------------------------------------------------------
\* Fixed-point arithmetic

Max(a, b) == IF a >= b THEN a ELSE b
Min(a, b) == IF a <= b THEN a ELSE b

RECURSIVE IsqrtBetween(_, _, _)
IsqrtBetween(n, lo, hi) ==
    IF lo >= hi THEN lo
    ELSE LET mid == (lo + hi + 1) \div 2
         IN  IF mid * mid <= n THEN IsqrtBetween(n, mid, hi)
                               ELSE IsqrtBetween(n, lo, mid - 1)

\* floor(sqrt(n)) for n >= 0
Isqrt(n) == IsqrtBetween(n, 0, Min(n, 46340))

\* math.sqrt of a fixed-point value
Sqrt(v) == Isqrt(v * Unit)

\* math.pi
Pi == (355 * Unit) \div 113

RECURSIVE CosSeries(_, _, _, _)
CosSeries(x, term, n, acc) ==
    IF n > 9 THEN acc
    ELSE LET t == ((((term * x) \div Unit) * x) \div Unit) \div ((2 * n - 1) * (2 * n))
         IN  CosSeries(x, t, n + 1, IF n % 2 = 1 THEN acc - t ELSE acc + t)

\* math.cos for 0 <= x <= pi
Cos(x) == CosSeries(x, Unit, 1, Unit)

RECURSIVE ExpSeries(_, _, _, _)
ExpSeries(y, term, n, acc) ==
    IF n > 12 THEN acc
    ELSE LET t == (term * y) \div (n * Unit)
         IN  ExpSeries(y, t, n + 1, acc + t)

\* math.tanh for 0 <= d <= 1, as (e^2d - 1) / (e^2d + 1)
Tanh(d) ==
    LET e == ExpSeries(2 * d, Unit, 1, Unit)
    IN  ((e - Unit) * Unit) \div (e + Unit)

----------------------------------------------------------------------------
\* clustering.py: Coordinate, get_distance, weights

Coordinate(x, y) == [x |-> x, y |-> y]

\* Variant: diff_y is taken from the first coordinate alone.
get_distance_unsubtracted(coordinate_0, coordinate_1) ==
    LET diff_x == coordinate_0.x - coordinate_1.x
        diff_y == coordinate_0.y
    IN  Isqrt(diff_x * diff_x + diff_y * diff_y)

get_distance(coordinate_0, coordinate_1) ==
    LET diff_x == coordinate_0.x - coordinate_1.x
        diff_y == coordinate_0.y - coordinate_1.y
    IN  Isqrt(diff_x * diff_x + diff_y * diff_y)

\* get_distance(coord0, coord1) / max_distance
Rescaled(coord0, coord1, maxd) == (get_distance(coord0, coord1) * Unit) \div maxd

\* weight of the first loop: -cos(d * pi)
SameWeight(coord0, coord1, maxd) ==
    LET d == Rescaled(coord0, coord1, maxd)
    IN  0 - Cos((d * Pi) \div Unit)

\* weight of the second loop: -tanh(sqrt(d)) * 0.1
DiffWeight(coord0, coord1, maxd) ==
    LET d == Sqrt(Rescaled(coord0, coord1, maxd))
    IN  0 - (Tanh(d) \div 10)

\* Variant: the first call of the second loop repeats colour 0 on both sides.
DiffCasesWithRepeat ==
    << <<0, 0>>, <<0, 2>>, <<1, 0>>, <<1, 2>>, <<2, 0>>, <<2, 1>> >>

\* The (icolor, jcolor) arguments of the second loop's six calls, in order.
DiffCases == << <<0, 1>>, <<0, 2>>, <<1, 0>>, <<1, 2>>, <<2, 0>>, <<2, 1>> >>

----------------------------------------------------------------------------
\* Iteration over index pairs: for i in 0..n-2, for j in i+1..n-1

FirstPair(n) == IF n >= 2 THEN <<0, 1>> ELSE <<>>

\* Variant: the inner loop stops one position early.
NextPairStoppingEarly(p, n) ==
    IF p[2] + 1 <= n - 2 THEN <<p[1], p[2] + 1>>
    ELSE IF p[1] + 1 <= n - 2 THEN <<p[1] + 1, p[1] + 2>>
    ELSE <<>>

NextPair(p, n) ==
    IF p[2] + 1 <= n - 1 THEN <<p[1], p[2] + 1>>
    ELSE IF p[1] + 1 <= n - 2 THEN <<p[1] + 1, p[1] + 2>>
    ELSE <<>>

\* coordinates[i] with Python's 0-based index
Coord(i) == coordinates[i + 1]

----------------------------------------------------------------------------
\* dimod.DiscreteQuadraticModel as used by cluster_points

EmptyDQM == [variables |-> <<>>, quadratic |-> {}]

\* add_variable(num_cases): the new variable is labelled with its index
add_variable(d, num_cases) ==
    [d EXCEPT !.variables = Append(@, num_cases)]

\* Interactions are stored symmetrically: the key has the lower variable first.
CaseKey(u, u_case, v, v_case) ==
    IF u <= v THEN <<u, u_case, v, v_case>> ELSE <<v, v_case, u, u_case>>

\* set_quadratic_case(u, u_case, v, v_case, bias): sets (overwrites) the bias
set_quadratic_case(d, u, u_case, v, v_case, bias) ==
    LET key == CaseKey(u, u_case, v, v_case)
    IN  [d EXCEPT !.quadratic =
            {e \in @ : e[1] # key} \cup {<<key, bias>>}]

\* The assignments the sampler can return for a model: one case per variable.
ValidSamples(d) ==
    LET n == Len(d.variables)
        sizes == {d.variables[i] : i \in 1 .. n}
        most == IF n = 0 THEN 0
                ELSE CHOOSE m \in sizes : \A x \in sizes : x <= m
    IN  {s \in [0 .. n - 1 -> 0 .. most - 1] :
            \A v \in 0 .. n - 1 : s[v] < d.variables[v + 1]}

----------------------------------------------------------------------------
\* utilities.py (get_groupings, visualize_groupings, visualize_scatterplot)

\* get_groupings: the points of each category, in index order
get_groupings(sample, coords) ==
    [c \in {sample[v] : v \in DOMAIN sample} |->
        LET Pick(i) == sample[i - 1] = c
            members == SelectSeq([i \in 1 .. Len(coords) |-> i], Pick)
        IN  [m \in 1 .. Len(members) |-> coords[members[m]]]]

\* visualize_scatterplot / visualize_groupings save one figure to the file
SaveFigure(written, name) == Append(written, name)

----------------------------------------------------------------------------
\* Inputs

ORIG_FILENAME == "four_points.png"
CLUSTERED_FILENAME == "four_points_clustered.png"
NO_INSPECTOR_FLAG == "--no-problem-inspector"

\* scattered_points = [(0, 0), (1, 1), (2, 4), (3, 2)]
HardcodedPoints ==
    << <<0, 0>>, <<Unit, Unit>>, <<2 * Unit, 4 * Unit>>, <<3 * Unit, 2 * Unit>> >>

ArgvChoices == {<<>>, <<NO_INSPECTOR_FLAG>>}

\* Points for the function-level runs: the origin, a point closer than 1 to
\* it, and two points farther than 1 from everything else.
PointPool ==
    {<<0, 0>>, <<Unit \div 2, 0>>, <<Unit, Unit>>, <<3 * Unit, 2 * Unit>>}

PointLists == UNION {[1 .. n -> PointPool] : n \in 0 .. MaxPoints}

\* print("Your plots are saved to '{}' and '{}'.".format(...))
SummaryLine(orig, clustered) ==
    [words |-> <<"Your", "plots", "are", "saved", "to", orig, "and", clustered>>,
     data |-> <<>>]

\* print(groupings): the printed text is the repr of the object
ObjectLine(object) == [words |-> <<>>, data |-> <<object>>]

----------------------------------------------------------------------------
\* Initial states

\* Locals of cluster_points before it is entered.
CallFrameInit ==
    /\ coordinates = <<>>
    /\ gmd_max = 0
    /\ visited = <<>>
    /\ max_distance = 0
    /\ dqm = EmptyDQM
    /\ set_calls = <<>>
    /\ cur = <<>>
    /\ k = 0
    /\ remote_calls = <<>>
    /\ sampleset = <<>>
    /\ groupings = <<>>

\* `python clustering.py [--no-problem-inspector]`
Init ==
    /\ pc = "main_parse"
    /\ argv \in ArgvChoices
    /\ problem_inspector = TRUE
    /\ scattered_points = <<>>
    /\ filename = ""
    /\ files = <<>>
    /\ stdout = <<>>
    /\ CallFrameInit

\* cluster_points(scattered_points, filename, problem_inspector) called directly
InitCluster ==
    /\ pc = "cp_coordinates"
    /\ argv = <<>>
    /\ problem_inspector \in BOOLEAN
    /\ scattered_points \in PointLists
    /\ filename = CLUSTERED_FILENAME
    /\ files = <<>>
    /\ stdout = <<>>
    /\ CallFrameInit

----------------------------------------------------------------------------
\* __main__

\* parser.parse_args(): store_false into problem_inspector (default True)
ParseArgs ==
    /\ pc = "main_parse"
    /\ problem_inspector' = ~(\E a \in 1 .. Len(argv) : argv[a] = NO_INSPECTOR_FLAG)
    /\ pc' = "main_scatter"
    /\ UNCHANGED <<argv, scattered_points, filename, files, stdout, coordinates,
                   gmd_max, visited, max_distance, dqm, set_calls, cur, k,
                   remote_calls, sampleset, groupings>>

\* scattered_points = [...]; visualize_scatterplot(scattered_points, orig_filename);
\* then the call of cluster_points binds its parameters
VisualizeScatterplot ==
    /\ pc = "main_scatter"
    /\ scattered_points' = HardcodedPoints
    /\ files' = SaveFigure(files, ORIG_FILENAME)
    /\ filename' = CLUSTERED_FILENAME
    /\ pc' = "cp_coordinates"
    /\ UNCHANGED <<argv, problem_inspector, stdout, coordinates, gmd_max, visited,
                   max_distance, dqm, set_calls, cur, k, remote_calls, sampleset,
                   groupings>>

\* cluster_points returned: print the summary line and exit
PrintSummary ==
    /\ pc = "cp_return"
    /\ stdout' = Append(stdout, SummaryLine(ORIG_FILENAME, CLUSTERED_FILENAME))
    /\ pc' = "done"
    /\ UNCHANGED <<argv, problem_inspector, scattered_points, filename, files,
                   coordinates, gmd_max, visited, max_distance, dqm, set_calls,
                   cur, k, remote_calls, sampleset, groupings>>

----------------------------------------------------------------------------
\* cluster_points: set-up

\* coordinates = [Coordinate(x, y) for x, y in scattered_points];
\* get_max_distance is entered: max_distance = 0
BuildCoordinates ==
    /\ pc = "cp_coordinates"
    /\ coordinates' = [i \in 1 .. Len(scattered_points) |->
                          Coordinate(scattered_points[i][1], scattered_points[i][2])]
    /\ gmd_max' = 0
    /\ cur' = FirstPair(Len(scattered_points))
    /\ pc' = "gmd_loop"
    /\ UNCHANGED <<argv, problem_inspector, scattered_points, filename, files,
                   stdout, visited, max_distance, dqm, set_calls, k, remote_calls,
                   sampleset, groupings>>

\* get_max_distance: one pass of the inner loop body
MeasurePair ==
    /\ pc = "gmd_loop"
    /\ cur # <<>>
    /\ LET distance == get_distance(Coord(cur[1]), Coord(cur[2]))
       IN  gmd_max' = Max(gmd_max, distance)
    /\ visited' = Append(visited, cur)
    /\ cur' = NextPair(cur, Len(coordinates))
    /\ UNCHANGED <<pc, argv, problem_inspector, scattered_points, filename, files,
                   stdout, coordinates, max_distance, dqm, set_calls, k,
                   remote_calls, sampleset, groupings>>

\* Variant: the max(.., 1) guard is left out.
UnflooredDivisor(returned) == returned

\* The divisor computed from get_max_distance's return value.
FlooredDivisor(returned) == Max(returned, Unit)

\* get_max_distance returns; max_distance = max(get_max_distance(coordinates), 1)
ReturnMaxDistance ==
    /\ pc = "gmd_loop"
    /\ cur = <<>>
    /\ max_distance' = FlooredDivisor(gmd_max)
    /\ pc' = "cp_new_dqm"
    /\ UNCHANGED <<argv, problem_inspector, scattered_points, filename, files,
                   stdout, coordinates, gmd_max, visited, dqm, set_calls, cur, k,
                   remote_calls, sampleset, groupings>>

----------------------------------------------------------------------------
\* cluster_points: model construction

\* dqm = DiscreteQuadraticModel()
NewDQM ==
    /\ pc = "cp_new_dqm"
    /\ dqm' = EmptyDQM
    /\ cur' = IF Len(coordinates) > 0 THEN <<0>> ELSE <<>>
    /\ pc' = "cp_add_variables"
    /\ UNCHANGED <<argv, problem_inspector, scattered_points, filename, files,
                   stdout, coordinates, gmd_max, visited, max_distance, set_calls,
                   k, remote_calls, sampleset, groupings>>

\* Variant: the loop runs over coordinates[:-1], like the pair loops.
AddVariableButLast ==
    /\ pc = "cp_add_variables"
    /\ cur # <<>>
    /\ dqm' = add_variable(dqm, NumCases)
    /\ cur' = IF cur[1] + 1 < Len(coordinates) - 1 THEN <<cur[1] + 1>> ELSE <<>>
    /\ UNCHANGED <<pc, argv, problem_inspector, scattered_points, filename, files,
                   stdout, coordinates, gmd_max, visited, max_distance, set_calls,
                   k, remote_calls, sampleset, groupings>>

\* for coord in coordinates: dqm.add_variable(3)
AddVariable ==
    /\ pc = "cp_add_variables"
    /\ cur # <<>>
    /\ dqm' = add_variable(dqm, NumCases)
    /\ cur' = IF cur[1] + 1 < Len(coordinates) THEN <<cur[1] + 1>> ELSE <<>>
    /\ UNCHANGED <<pc, argv, problem_inspector, scattered_points, filename, files,
                   stdout, coordinates, gmd_max, visited, max_distance, set_calls,
                   k, remote_calls, sampleset, groupings>>

\* the add_variable loop is exhausted: enter the first pair loop
EnterSameLoop ==
    /\ pc = "cp_add_variables"
    /\ cur = <<>>
    /\ cur' = FirstPair(Len(coordinates))
    /\ k' = 0
    /\ pc' = "cp_same"
    /\ UNCHANGED <<argv, problem_inspector, scattered_points, filename, files,
                   stdout, coordinates, gmd_max, visited, max_distance, dqm,
                   set_calls, remote_calls, sampleset, groupings>>

\* first loop: dqm.set_quadratic_case(i, icolor, j, icolor, weight), icolor = k
SetSameColour ==
    /\ pc = "cp_same"
    /\ cur # <<>>
    /\ LET i == cur[1]
           j == cur[2]
           weight == SameWeight(Coord(i), Coord(j), max_distance)
       IN  /\ dqm' = set_quadratic_case(dqm, i, k, j, k, weight)
           /\ set_calls' = Append(set_calls,
                  [loop |-> 1, u |-> i, u_case |-> k, v |-> j, v_case |-> k,
                   bias |-> weight])
    /\ IF k + 1 < NumCases
          THEN k' = k + 1 /\ cur' = cur
          ELSE k' = 0 /\ cur' = NextPair(cur, Len(coordinates))
    /\ UNCHANGED <<pc, argv, problem_inspector, scattered_points, filename, files,
                   stdout, coordinates, gmd_max, visited, max_distance,
                   remote_calls, sampleset, groupings>>

\* the first pair loop is exhausted: enter the second pair loop
EnterDiffLoop ==
    /\ pc = "cp_same"
    /\ cur = <<>>
    /\ cur' = FirstPair(Len(coordinates))
    /\ k' = 1
    /\ pc' = "cp_diff"
    /\ UNCHANGED <<argv, problem_inspector, scattered_points, filename, files,
                   stdout, coordinates, gmd_max, visited, max_distance, dqm,
                   set_calls, remote_calls, sampleset, groupings>>

\* second loop: the k-th of the six dqm.set_quadratic_case(i, c1, j, c2, weight)
SetDiffColour ==
    /\ pc = "cp_diff"
    /\ cur # <<>>
    /\ LET i == cur[1]
           j == cur[2]
           c1 == DiffCases[k][1]
           c2 == DiffCases[k][2]
           weight == DiffWeight(Coord(i), Coord(j), max_distance)
       IN  /\ dqm' = set_quadratic_case(dqm, i, c1, j, c2, weight)
           /\ set_calls' = Append(set_calls,
                  [loop |-> 2, u |-> i, u_case |-> c1, v |-> j, v_case |-> c2,
                   bias |-> weight])
    /\ IF k < Len(DiffCases)
          THEN k' = k + 1 /\ cur' = cur
          ELSE k' = 1 /\ cur' = NextPair(cur, Len(coordinates))
    /\ UNCHANGED <<pc, argv, problem_inspector, scattered_points, filename, files,
                   stdout, coordinates, gmd_max, visited, max_distance,
                   remote_calls, sampleset, groupings>>

\* Variant: the submission is reached from inside the second loop.
ModelBuiltInsideLoop ==
    /\ pc = "cp_diff"
    /\ k' = 0
    /\ pc' = "cp_submit"
    /\ UNCHANGED <<argv, problem_inspector, scattered_points, filename, files,
                   stdout, coordinates, gmd_max, visited, max_distance, dqm,
                   set_calls, cur, remote_calls, sampleset, groupings>>

\* the second pair loop is exhausted: the model is ready for submission
ModelBuilt ==
    /\ pc = "cp_diff"
    /\ cur = <<>>
    /\ k' = 0
    /\ pc' = "cp_submit"
    /\ UNCHANGED <<argv, problem_inspector, scattered_points, filename, files,
                   stdout, coordinates, gmd_max, visited, max_distance, dqm,
                   set_calls, cur, remote_calls, sampleset, groupings>>

----------------------------------------------------------------------------
\* cluster_points: submission and output

SampleRequest(d) == [op |-> "sample_dqm", model |-> d]

\* Variant: the request is sent a second time before the result is used.
SampleReturnsAfterResend ==
    /\ pc = "cp_submit"
    /\ remote_calls' = Append(Append(remote_calls, SampleRequest(dqm)),
                              SampleRequest(dqm))
    /\ \E best_sample \in ValidSamples(dqm) : sampleset' = <<best_sample>>
    /\ pc' = "cp_visualize"
    /\ UNCHANGED <<argv, problem_inspector, scattered_points, filename, files,
                   stdout, coordinates, gmd_max, visited, max_distance, dqm,
                   set_calls, cur, k, groupings>>

\* sampler.sample_dqm(dqm) returns; best_sample = sampleset.first.sample
SampleReturns ==
    /\ pc = "cp_submit"
    /\ remote_calls' = Append(remote_calls, SampleRequest(dqm))
    /\ \E best_sample \in ValidSamples(dqm) : sampleset' = <<best_sample>>
    /\ pc' = "cp_visualize"
    /\ UNCHANGED <<argv, problem_inspector, scattered_points, filename, files,
                   stdout, coordinates, gmd_max, visited, max_distance, dqm,
                   set_calls, cur, k, groupings>>

\* Variant: the exception is swallowed and cluster_points returns normally.
SampleRaisesSwallowed ==
    /\ pc = "cp_submit"
    /\ remote_calls' = Append(remote_calls, SampleRequest(dqm))
    /\ pc' = "cp_return"
    /\ UNCHANGED <<argv, problem_inspector, scattered_points, filename, files,
                   stdout, coordinates, gmd_max, visited, max_distance, dqm,
                   set_calls, cur, k, sampleset, groupings>>

\* sampler.sample_dqm(dqm) raises: nothing catches it, the process dies
SampleRaises ==
    /\ pc = "cp_submit"
    /\ remote_calls' = Append(remote_calls, SampleRequest(dqm))
    /\ pc' = "error"
    /\ UNCHANGED <<argv, problem_inspector, scattered_points, filename, files,
                   stdout, coordinates, gmd_max, visited, max_distance, dqm,
                   set_calls, cur, k, sampleset, groupings>>

\* Variant: the clustered figure is saved under the unclustered plot's name.
VisualizeGroupingsWrongFile ==
    /\ pc = "cp_visualize"
    /\ groupings' = <<get_groupings(sampleset[1], coordinates)>>
    /\ files' = SaveFigure(files, ORIG_FILENAME)
    /\ pc' = "cp_print"
    /\ UNCHANGED <<argv, problem_inspector, scattered_points, filename, stdout,
                   coordinates, gmd_max, visited, max_distance, dqm, set_calls,
                   cur, k, remote_calls, sampleset>>

\* groupings = get_groupings(best_sample, coordinates);
\* visualize_groupings(groupings, filename)
VisualizeGroupings ==
    /\ pc = "cp_visualize"
    /\ groupings' = <<get_groupings(sampleset[1], coordinates)>>
    /\ files' = SaveFigure(files, filename)
    /\ pc' = "cp_print"
    /\ UNCHANGED <<argv, problem_inspector, scattered_points, filename, stdout,
                   coordinates, gmd_max, visited, max_distance, dqm, set_calls,
                   cur, k, remote_calls, sampleset>>

\* print(groupings)
PrintGroupings ==
    /\ pc = "cp_print"
    /\ stdout' = Append(stdout, ObjectLine(groupings[1]))
    /\ pc' = "cp_return"
    /\ UNCHANGED <<argv, problem_inspector, scattered_points, filename, files,
                   coordinates, gmd_max, visited, max_distance, dqm, set_calls,
                   cur, k, remote_calls, sampleset, groupings>>

----------------------------------------------------------------------------
\* Specifications

NextCluster ==
    \/ BuildCoordinates
    \/ MeasurePair
    \/ ReturnMaxDistance
    \/ NewDQM
    \/ AddVariable
    \/ EnterSameLoop
    \/ SetSameColour
    \/ EnterDiffLoop
    \/ SetDiffColour
    \/ ModelBuilt
    \/ SampleReturns
    \/ SampleRaises
    \/ VisualizeGroupings
    \/ PrintGroupings

Next ==
    \/ ParseArgs
    \/ VisualizeScatterplot
    \/ NextCluster
    \/ PrintSummary

\* One run of the script.
Spec == Init /\ [][Next]_vars

\* One call of cluster_points on an arbitrary point list.
SpecCluster == InitCluster /\ [][NextCluster]_vars

----------------------------------------------------------------------------
\* Vocabulary of the properties

AfterSetup == pc \notin {"main_parse", "main_scatter", "cp_coordinates", "gmd_loop"}

Built == pc \in {"cp_submit", "cp_visualize", "cp_print", "cp_return", "done", "error"}

Submitted == pc \in {"cp_visualize", "cp_print", "cp_return", "done", "error"}

Written(name) == \E f \in 1 .. Len(files) : files[f] = name

SolverReturned == sampleset # <<>>

SolverFailed == remote_calls # <<>> /\ sampleset = <<>>

InspectorShown ==
    \E c \in 1 .. Len(remote_calls) : remote_calls[c].op = "show_inspector"

PointIndices == 0 .. Len(coordinates) - 1

IndexPairs == {p \in PointIndices \X PointIndices : p[1] < p[2]}

Cases == 0 .. NumCases - 1

CallKey(call) == <<call.u, call.u_case, call.v, call.v_case>>

CallsFor(key) == {x \in 1 .. Len(set_calls) : CallKey(set_calls[x]) = key}

\* Every variable added and every bias of every pair set.
Complete(d) ==
    /\ Len(d.variables) = Len(coordinates)
    /\ {e[1] : e \in d.quadratic} =
          {<<p[1], c1, p[2], c2>> : p \in IndexPairs, c1 \in Cases, c2 \in Cases}

----------------------------------------------------------------------------
\* C1 (as stated): the steps of a run are: model built, one blocking remote
\* call, result processed, output files written, exit; in particular no
\* output image file is written before the remote call has returned.
C1_NoImageBeforeSolverReturns ==
    /\ Len(remote_calls) <= 1
    /\ remote_calls # <<>> => Complete(remote_calls[1].model)
    /\ files # <<>> => SolverReturned

\* C1 (amended): the unclustered plot is written first, before the model is
\* built; then the model is built, exactly one blocking remote call is issued
\* with the complete model, its single result is processed, the clustered
\* image is written, the output is printed and the process exits.  The
\* clustered image is never written before the remote call has returned.
C1_StepOrder ==
    /\ pc \in {"main_parse", "main_scatter"} =>
          files = <<>> /\ dqm = EmptyDQM /\ remote_calls = <<>>
    /\ pc \notin {"main_parse", "main_scatter"} =>
          Len(files) >= 1 /\ files[1] = ORIG_FILENAME
    /\ Len(remote_calls) <= 1
    /\ Submitted => Len(remote_calls) = 1
    /\ remote_calls # <<>> => Built /\ Complete(remote_calls[1].model)
    /\ SolverReturned => remote_calls # <<>>
    /\ groupings # <<>> => SolverReturned
    /\ Written(CLUSTERED_FILENAME) => groupings # <<>> /\ SolverReturned
    /\ stdout # <<>> => Written(CLUSTERED_FILENAME)
    /\ pc = "done" => Written(CLUSTERED_FILENAME) /\ ~ENABLED Next

\* A finished run: both files written, the solver called once in between.
C1_Witness ==
    /\ pc = "done"
    /\ files = <<ORIG_FILENAME, CLUSTERED_FILENAME>>
    /\ Len(remote_calls) = 1
    /\ SolverReturned

\* C2: if the remote solver call fails, nothing catches the failure:
\* cluster_points does not return, the process ends in an error state, and
\* the clustered image, the groupings and the summary line never appear.
C2_FailurePropagates ==
    SolverFailed =>
        /\ pc = "error"
        /\ ~ENABLED Next
        /\ ~Written(CLUSTERED_FILENAME)
        /\ groupings = <<>>
        /\ stdout = <<>>

\* The solver call of a script run has failed.
C2_Witness ==
    /\ SolverFailed
    /\ pc = "error"
    /\ files = <<ORIG_FILENAME>>
    /\ Complete(dqm)

\* C3: the flag decides whether the problem inspector is shown: a finished
\* run without --no-problem-inspector has shown it, one with the flag has not.
C3_InspectorFollowsFlag ==
    pc = "done" => (InspectorShown <=> problem_inspector)

\* C4: a run whose solver call succeeds ends with exactly the two image
\* files written and the summary line printed last, after the groupings;
\* the script prints no ERROR or WARNING.
C4_SuccessfulRunOutput ==
    (SolverReturned /\ ~ENABLED Next) =>
        /\ pc = "done"
        /\ files = <<ORIG_FILENAME, CLUSTERED_FILENAME>>
        /\ stdout = <<ObjectLine(groupings[1]),
                      SummaryLine(ORIG_FILENAME, CLUSTERED_FILENAME)>>
        /\ \A l \in 1 .. Len(stdout) : \A w \in 1 .. Len(stdout[l].words) :
              stdout[l].words[w] \notin {"ERROR", "WARNING", "Error", "Warning",
                                         "error", "warning"}

\* A successful run has ended.
C4_Witness ==
    /\ SolverReturned
    /\ ~ENABLED Next
    /\ Len(stdout) = 2
    /\ Len(files) = 2

\* C5: the model is built once and submitted exactly once: the submitted
\* model has every variable and every quadratic bias, and after the
\* submission the model is never modified or submitted again.
C5_BuiltOnceSubmittedOnce ==
    /\ Len(remote_calls) <= 1
    /\ Submitted => Len(remote_calls) = 1
    /\ \A c \in 1 .. Len(remote_calls) :
          /\ remote_calls[c].op = "sample_dqm"
          /\ Complete(remote_calls[c].model)
          /\ remote_calls[c].model = dqm

\* cluster_points has returned after submitting a model with interactions.
C5_Witness ==
    /\ pc = "cp_return"
    /\ Len(remote_calls) = 1
    /\ Len(coordinates) >= 2
    /\ remote_calls[1].model.quadratic # {}

\* C6: distance is symmetric and zero from a point to itself, so the bias
\* a pair of points receives does not depend on which of the two comes
\* first.
C6_DistanceSymmetric ==
    /\ pc = "gmd_loop" =>
          \A a \in PointIndices : \A b \in PointIndices :
              /\ get_distance(Coord(a), Coord(b)) = get_distance(Coord(b), Coord(a))
              /\ get_distance(Coord(a), Coord(a)) = 0
    /\ pc \in {"cp_same", "cp_diff"} /\ set_calls # <<>> =>
          LET call == set_calls[Len(set_calls)]
          IN  call.bias =
                 IF call.loop = 1
                    THEN SameWeight(Coord(call.v), Coord(call.u), max_distance)
                    ELSE DiffWeight(Coord(call.v), Coord(call.u), max_distance)

\* Biases of both loops have been set for two points that differ in x and y.
C6_Witness ==
    /\ pc = "cp_diff"
    /\ set_calls # <<>>
    /\ LET call == set_calls[Len(set_calls)]
       IN  /\ call.loop = 2
           /\ Coord(call.u).x # Coord(call.v).x
           /\ Coord(call.u).y # Coord(call.v).y
           /\ Coord(call.u).y # 0
           /\ call.bias < 0

\* C7: for every point list (empty, one point and coincident points
\* included) the divisor max_distance is at least 1, and every pair's
\* rescaled distance lies between 0 and 1.
C7_DivisorAtLeastOne ==
    /\ AfterSetup => max_distance >= Unit
    /\ pc = "cp_new_dqm" =>
          \A a \in PointIndices : \A b \in PointIndices :
              /\ Rescaled(Coord(a), Coord(b), max_distance) >= 0
              /\ Rescaled(Coord(a), Coord(b), max_distance) <= Unit

\* Two or more coincident points: get_max_distance returned 0.
C7_Witness ==
    /\ pc = "cp_new_dqm"
    /\ Len(coordinates) >= 2
    /\ gmd_max = 0
    /\ max_distance = Unit

\* C8: the submitted model has one variable per input point, in input
\* order, each with 3 categories, so a returned sample maps every point
\* index 0..n-1 to a category in {0, 1, 2}.
C8_OneVariablePerPoint ==
    /\ (pc = "cp_add_variables" /\ cur # <<>>) => Len(dqm.variables) = cur[1]
    /\ \A c \in 1 .. Len(remote_calls) :
          LET sent == remote_calls[c].model
          IN  /\ Len(sent.variables) = Len(scattered_points)
              /\ \A v \in 1 .. Len(sent.variables) : sent.variables[v] = 3
    /\ SolverReturned =>
          /\ DOMAIN sampleset[1] = 0 .. Len(scattered_points) - 1
          /\ \A v \in DOMAIN sampleset[1] : sampleset[1][v] \in {0, 1, 2}

\* A sample for three points that uses the highest category has come back.
C8_Witness ==
    /\ SolverReturned
    /\ Len(scattered_points) = 3
    /\ \E v \in DOMAIN sampleset[1] : sampleset[1][v] = 2

\* C9: when construction finishes, every case (i, c1, j, c2) of every pair
\* i < j has been set exactly once: by the first loop with the same-colour
\* weight when c1 = c2, by the second loop with the different-colour weight
\* otherwise; no call overwrites an earlier one, none joins a point to itself.
C9_EachBiasSetOnce ==
    /\ pc \in {"cp_same", "cp_diff"} /\ set_calls # <<>> =>
          LET x == Len(set_calls)
          IN  /\ set_calls[x].u < set_calls[x].v
              /\ CallsFor(CallKey(set_calls[x])) = {x}
              /\ <<CallKey(set_calls[x]), set_calls[x].bias>> \in dqm.quadratic
    /\ Cardinality(dqm.quadratic) = Len(set_calls)
    /\ pc = "cp_submit" =>
          \A p \in IndexPairs : \A c1 \in Cases : \A c2 \in Cases :
              LET calls == CallsFor(<<p[1], c1, p[2], c2>>)
              IN  /\ Cardinality(calls) = 1
                  /\ \A x \in calls :
                        /\ set_calls[x].loop = IF c1 = c2 THEN 1 ELSE 2
                        /\ set_calls[x].bias =
                              IF c1 = c2
                                 THEN SameWeight(Coord(p[1]), Coord(p[2]), max_distance)
                                 ELSE DiffWeight(Coord(p[1]), Coord(p[2]), max_distance)

\* Construction has finished for three points: 27 biases, both weights in use.
C9_Witness ==
    /\ pc = "cp_submit"
    /\ Len(coordinates) = 3
    /\ Len(set_calls) = 27
    /\ \E x \in 1 .. Len(set_calls) : \E y \in 1 .. Len(set_calls) :
          /\ set_calls[x].loop = 1
          /\ set_calls[y].loop = 2
          /\ set_calls[x].bias # set_calls[y].bias

\* C10: get_max_distance returns the largest get_distance over the pairs
\* i < j, each measured exactly once, returns 0 for fewer than two
\* coordinates, and never returns less than the distance of some pair.
C10_MaxOverPairs ==
    pc = "cp_new_dqm" =>
        /\ {visited[x] : x \in 1 .. Len(visited)} = IndexPairs
        /\ Len(visited) = Cardinality(IndexPairs)
        /\ \A p \in IndexPairs : gmd_max >= get_distance(Coord(p[1]), Coord(p[2]))
        /\ \/ gmd_max = 0 /\ \A p \in IndexPairs :
                                 get_distance(Coord(p[1]), Coord(p[2])) = 0
           \/ \E p \in IndexPairs : gmd_max = get_distance(Coord(p[1]), Coord(p[2]))
        /\ Len(coordinates) < 2 => gmd_max = 0

\* Three points whose largest distance is that of the last pair measured.
C10_Witness ==
    /\ pc = "cp_new_dqm"
    /\ Len(coordinates) = 3
    /\ gmd_max = get_distance(Coord(1), Coord(2))
    /\ gmd_max > get_distance(Coord(0), Coord(1))
    /\ gmd_max > get_distance(Coord(0), Coord(2))

====
